---- MODULE Spec2Model ----
(***************************************************************************)
(* TextBitmap (nunuStudio): a THREE.Mesh whose geometry is laid out by the *)
(* BMFont text geometry generator from a configuration object, and whose   *)
(* shader material is selected by the render mode.                         *)
(*                                                                         *)
(* JavaScript values that may be undefined are modelled as options:        *)
(* Undef is undefined and Some(v) is the value v.  Fixed point numbers     *)
(* stand for the two float uniforms (hundredths: 0.4 is 40).               *)
(***************************************************************************)
EXTENDS Integers, Sequences, FiniteSets, TLC

VARIABLES heap, inst, layoutCalls, layoutOps, last, nops

vars == <<heap, inst, layoutCalls, layoutOps, last, nops>>

(* ---------------------------------------------------------------- bounds *)
MaxInstances == 2
MaxOps == 3

(* ------------------------------------------------------- option values *)
Undef == <<>>
Some(v) == <<v>>
Val(o) == o[1]

(* ---------------------------------------------------- static attributes *)
BITMAP == 100
SDF == 101
MSDF == 102
LEFT == "left"
CENTER == "center"
RIGHT == "right"
VERTEX_SHADER == "VERTEX_SHADER"
BITMAP_SHADER == "BITMAP_SHADER"
SDF_SHADER == "SDF_SHADER"
MSDF_SHADER == "MSDF_SHADER"

(* Message of the Error thrown by the constructor's font check. *)
ConfigurationError == "TextBitmap configuration font is required."
(* Message of the TypeError thrown by the geometry generator. *)
LayoutError == "must specify a { font } in options"
Ok == "ok"

(* ------------------------------------------------------------ font data *)
(* Parsed BMFont data: common metrics and one glyph cell size.             *)
FontData == [F1 |-> [common |-> [lineHeight |-> 10, base |-> 8], xadvance |-> 2, width |-> 2],
             F2 |-> [common |-> [lineHeight |-> 12, base |-> 9], xadvance |-> 3, width |-> 3]]

LayoutProps == {"font", "text", "lineHeight", "letterSpacing", "align", "width"}
UniformProps == {"color", "threshold", "smoothing"}

(* THREE.Color built from a hexadecimal number. *)
Color(hex) == [r |-> (hex \div 65536) % 256, g |-> (hex \div 256) % 256, b |-> hex % 256]

(* --------------------------------------------- BMFont geometry generator *)
Max(a, b) == IF a >= b THEN a ELSE b

(* computeMetrics: how many of n glyphs fit on a line of the given width   *)
(* (Undef: no limit), and the width of that line.                          *)
RECURSIVE Measure(_, _, _, _, _)
Measure(n, font, letterSpacing, width, acc) ==
    IF acc.count = n THEN acc
    ELSE LET nextPen == acc.pen + font.xadvance + letterSpacing
             nextWidth == acc.pen + font.width
         IN  IF width # Undef /\ (nextWidth >= Val(width) \/ nextPen >= Val(width))
             THEN acc
             ELSE Measure(n, font, letterSpacing, width,
                          [pen |-> nextPen, width |-> nextWidth, count |-> acc.count + 1])

(* Greedy line breaking: every line takes the glyphs that fit, at least one. *)
RECURSIVE WrapLines(_, _, _, _, _)
WrapLines(start, n, font, letterSpacing, width) ==
    IF start > n THEN <<>>
    ELSE LET m == Measure(n - start + 1, font, letterSpacing, width,
                          [pen |-> 0, width |-> 0, count |-> 0])
             cnt == Max(1, m.count)
         IN  <<[start |-> start, end |-> start + cnt, width |-> m.width]>>
             \o WrapLines(start + cnt, n, font, letterSpacing, width)

RECURSIVE MaxLineWidth(_, _)
MaxLineWidth(lines, minWidth) ==
    IF lines = <<>> THEN 0
    ELSE Max(Max(lines[1].width, minWidth), MaxLineWidth(Tail(lines), minWidth))

(* The glyph quads of a laid out text: glyph id, atlas (uv source), pen   *)
(* position.  x is kept doubled so that centring stays integral.           *)
Layout(opt) ==
    LET font == FontData[Val(opt.font)]
        text == IF opt.text = Undef THEN <<>> ELSE Val(opt.text)
        letterSpacing == IF opt.letterSpacing = Undef THEN 0 ELSE Val(opt.letterSpacing)
        lineHeight == IF opt.lineHeight = Undef THEN font.common.lineHeight
                      ELSE Val(opt.lineHeight)
        minWidth == IF opt.width = Undef THEN 0 ELSE Val(opt.width)
        lines == WrapLines(1, Len(text), font, letterSpacing, opt.width)
        maxLineWidth == MaxLineWidth(lines, minWidth)
        height == lineHeight * Len(lines) - (lineHeight - font.common.base)
        shift(l) == IF opt.align = Some(CENTER) THEN maxLineWidth - lines[l].width
                    ELSE IF opt.align = Some(RIGHT) THEN 2 * (maxLineWidth - lines[l].width)
                    ELSE 0
        quad(l, i) == [id |-> text[i], uv |-> Val(opt.font),
                       x2 |-> 2 * (i - lines[l].start) * (font.xadvance + letterSpacing) + shift(l),
                       y |-> (l - 1) * lineHeight - height]
        lineOf(i) == CHOOSE l \in 1..Len(lines) : lines[l].start <= i /\ i < lines[l].end
    IN  [i \in 1..Len(text) |-> quad(lineOf(i), i)]

(* TextGeometry.update(opt): throws without a font, else replaces the      *)
(* vertex/uv data by the layout of opt.                                    *)
GeometryUpdate(geometry, opt) ==
    IF opt.font = Undef
    THEN [outcome |-> LayoutError, geometry |-> geometry, calls |-> 1]
    ELSE [outcome |-> Ok, geometry |-> Layout(opt), calls |-> 1]

(* createGeometry(opt): a new TextGeometry, laid out at once from opt. *)
createGeometry(opt) == GeometryUpdate(<<>>, opt)

(* ------------------------------------------------------------ TextBitmap *)
ApplyDefaults_falsy(config) ==
    [config EXCEPT
        !.width = IF @ = Undef \/ @ = Some(0) THEN Some(500) ELSE @,
        !.align = IF @ = Undef THEN Some(CENTER) ELSE @,
        !.lineHeight = IF @ = Undef \/ @ = Some(0)
                       THEN Some(FontData[Val(config.font)].common.lineHeight) ELSE @,
        !.letterSpacing = IF @ = Undef \/ @ = Some(0) THEN Some(5) ELSE @,
        !.text = IF @ = Undef THEN Some(<<>>) ELSE @]

(* Defaults written into the configuration object by the constructor. *)
ApplyDefaults(config) ==
    [config EXCEPT
        !.width = IF @ = Undef THEN Some(500) ELSE @,
        !.align = IF @ = Undef THEN Some(CENTER) ELSE @,
        !.lineHeight = IF @ = Undef THEN Some(FontData[Val(config.font)].common.lineHeight) ELSE @,
        !.letterSpacing = IF @ = Undef THEN Some(5) ELSE @,
        !.text = IF @ = Undef THEN Some(<<>>) ELSE @]

(* this.mode *)
SelectMode(mode) == IF mode # Undef THEN Val(mode) ELSE BITMAP

SelectShader_sdfOnly(mode) ==
    IF mode = SDF \/ mode = MSDF THEN SDF_SHADER ELSE BITMAP_SHADER

(* Fragment shader bound to the material. *)
SelectShader(mode) ==
    IF mode = SDF THEN SDF_SHADER
    ELSE IF mode = MSDF THEN MSDF_SHADER
    ELSE BITMAP_SHADER

(* Uniforms of the shader material. *)
Uniforms(texture, color) ==
    [map |-> [type |-> "t", value |-> texture],
     color |-> [type |-> "v3", value |-> Color(IF color # Undef THEN Val(color) ELSE 16777215)],
     smoothing |-> [type |-> "f", value |-> 0],
     threshold |-> [type |-> "f", value |-> 40]]

updateGeometry_append(geometry, config) ==
    LET u == GeometryUpdate(geometry, config)
    IN  IF u.outcome = Ok THEN [u EXCEPT !.geometry = geometry \o Layout(config)] ELSE u

(* TextBitmap.prototype.updateGeometry: this.geometry.update(this.config) *)
updateGeometry(geometry, config) == GeometryUpdate(geometry, config)

(* The constructor past its font check: defaults, mode, material, the      *)
(* geometry created from the configuration, and the updateGeometry() call. *)
Build(config, texture, mode, color) ==
    LET c == ApplyDefaults(config)
        m == SelectMode(mode)
        material == [uniforms |-> Uniforms(texture, color),
                     fragmentShader |-> SelectShader(m),
                     vertexShader |-> VERTEX_SHADER]
        g == createGeometry(c)
        u == updateGeometry(g.geometry, c)
    IN  IF g.outcome # Ok
        THEN [outcome |-> g.outcome, config |-> c, object |-> Undef, calls |-> g.calls]
        ELSE [outcome |-> u.outcome, config |-> c,
              object |-> Some([mode |-> m, material |-> material, geometry |-> u.geometry,
                               name |-> "text", type |-> "TextBitmap"]),
              calls |-> g.calls + u.calls]

TextBitmap_lateCheck(config, texture, mode, color) ==
    IF config.font = Undef
    THEN [outcome |-> ConfigurationError,
          config |-> [config EXCEPT !.width = IF @ = Undef THEN Some(500) ELSE @,
                                    !.align = IF @ = Undef THEN Some(CENTER) ELSE @],
          object |-> Undef, calls |-> 0]
    ELSE Build(config, texture, mode, color)

(* new TextBitmap(config, texture, mode, color): the outcome, the caller's *)
(* configuration object after the call, the object built (if any) and the  *)
(* number of layouts computed.                                             *)
TextBitmap(config, texture, mode, color) ==
    IF config.font = Undef
    THEN [outcome |-> ConfigurationError, config |-> config, object |-> Undef, calls |-> 0]
    ELSE Build(config, texture, mode, color)

setLayout_rollback(config, geometry, prop, value) ==
    LET c == [config EXCEPT ![prop] = value]
        u == updateGeometry(geometry, c)
    IN  [outcome |-> u.outcome, config |-> IF u.outcome = Ok THEN c ELSE config,
         geometry |-> u.geometry, calls |-> u.calls]

(* Setter of a layout property: store into the configuration, update. *)
setLayout(config, geometry, prop, value) ==
    LET c == [config EXCEPT ![prop] = value]
        u == updateGeometry(geometry, c)
    IN  [outcome |-> u.outcome, config |-> c, geometry |-> u.geometry, calls |-> u.calls]

setText_storeOnly(config, geometry, text) ==
    [outcome |-> Ok, config |-> [config EXCEPT !.text = text], geometry |-> geometry,
     calls |-> 0]

(* TextBitmap.prototype.setText: this.text = text *)
setText(config, geometry, text) == setLayout(config, geometry, "text", text)

setUniform_both(uniforms, prop, value) ==
    IF prop = "threshold"
    THEN [uniforms EXCEPT !.threshold.value = value, !.smoothing.value = value]
    ELSE [uniforms EXCEPT ![prop].value = value]

(* Setter of color, threshold or smoothing. *)
setUniform(uniforms, prop, value) == [uniforms EXCEPT ![prop].value = value]

(* Getters. *)
GetLayout(i, prop) == heap[inst[i].config][prop]
GetUniform(i, prop) == inst[i].material.uniforms[prop].value

(* ---------------------------------------------------------------- inputs *)
LayoutValues(prop) ==
    {Undef} \cup
    CASE prop = "font" -> {Some("F2")}
      [] prop = "text" -> {Some(<<"b", "a">>)}
      [] prop = "lineHeight" -> {Some(20)}
      [] prop = "letterSpacing" -> {Some(0)}
      [] prop = "align" -> {Some(LEFT)}
      [] prop = "width" -> {Some(8)}

UniformValues(prop) ==
    CASE prop = "color" -> {Color(255)}
      [] prop = "threshold" -> {50}
      [] prop = "smoothing" -> {10}

Textures == {"atlas"}
(* Mode and color arguments of the constructor. *)
ModeColor ==
    {<<Undef, Undef>>, <<Some(BITMAP), Some(16711680)>>,
     <<Some(SDF), Some(16711680)>>, <<Some(MSDF), Undef>>}

Config(font, text, width, align, lineHeight, letterSpacing) ==
    [font |-> font, text |-> text, width |-> width, align |-> align,
     lineHeight |-> lineHeight, letterSpacing |-> letterSpacing]

(* Configuration literals a caller passes to the constructor: nothing,     *)
(* everything but the font, the font alone, font with text and width,      *)
(* everything (letterSpacing 0 and the empty text are falsy values).       *)
ConfigInputs ==
    {Config(Undef, Undef, Undef, Undef, Undef, Undef),
     Config(Undef, Some(<<"a", "b">>), Some(8), Some(RIGHT), Some(20), Some(0)),
     Config(Some("F1"), Undef, Undef, Undef, Undef, Undef),
     Config(Some("F1"), Some(<<"a", "b">>), Some(8), Undef, Undef, Undef),
     Config(Some("F2"), Some(<<>>), Some(8), Some(RIGHT), Some(20), Some(0))}

NoConfig == Config(Undef, Undef, Undef, Undef, Undef, Undef)

(* --------------------------------------------------------------- actions *)
(* last: the operation that ran last, its arguments and its outcome;       *)
(* prev: the operation before it.                                          *)
NoArgs == [config |-> NoConfig, mode |-> Undef, color |-> Undef]

Op(op, i, c, prop, value, args, outcome) ==
    [op |-> op, inst |-> i, cfg |-> c, prop |-> prop, value |-> value, args |-> args,
     outcome |-> outcome, prev |-> [op |-> last.op, inst |-> last.inst]]

Init ==
    /\ heap = <<>>
    /\ inst = <<>>
    /\ layoutCalls = <<>>
    /\ layoutOps = <<>>
    /\ last = [op |-> "init", inst |-> 0, cfg |-> 0, prop |-> "", value |-> Undef,
               args |-> NoArgs, outcome |-> Ok, prev |-> [op |-> "init", inst |-> 0]]
    /\ nops = 0

Constructed(r, c) ==
    IF r.object = Undef
    THEN UNCHANGED <<inst, layoutCalls, layoutOps>>
    ELSE /\ inst' = Append(inst, [config |-> c] @@ Val(r.object))
         /\ layoutCalls' = Append(layoutCalls, r.calls)
         /\ layoutOps' = Append(layoutOps, 0)

(* new TextBitmap(literal, ...) with a configuration object of its own. *)
ConstructNew(v, texture, mode, color) ==
    /\ Len(inst) < MaxInstances
    /\ LET r == TextBitmap(v, texture, mode, color)
           c == Len(heap) + 1
       IN  /\ heap' = Append(heap, r.config)
           /\ Constructed(r, c)
           /\ last' = Op("new", IF r.object = Undef THEN 0 ELSE Len(inst) + 1, c, "", Undef,
                         [config |-> v, mode |-> mode, color |-> color], r.outcome)
    /\ nops' = nops + 1

(* new TextBitmap(config, ...) with a configuration object already in use. *)
ConstructShared(c, texture, mode, color) ==
    /\ Len(inst) < MaxInstances
    /\ LET r == TextBitmap(heap[c], texture, mode, color)
       IN  /\ heap' = [heap EXCEPT ![c] = r.config]
           /\ Constructed(r, c)
           /\ last' = Op("new", IF r.object = Undef THEN 0 ELSE Len(inst) + 1, c, "", Undef,
                         [config |-> heap[c], mode |-> mode, color |-> color], r.outcome)
    /\ nops' = nops + 1

(* The effect of a layout setter's result on instance i. *)
Written(i, r) ==
    /\ heap' = [heap EXCEPT ![inst[i].config] = r.config]
    /\ inst' = [inst EXCEPT ![i].geometry = r.geometry]
    /\ layoutCalls' = [layoutCalls EXCEPT ![i] = @ + r.calls]
    /\ layoutOps' = [layoutOps EXCEPT ![i] = @ + 1]

(* object.<prop> = value, for a layout property *)
SetLayout(i, prop, value) ==
    /\ LET r == setLayout(heap[inst[i].config], inst[i].geometry, prop, value)
       IN  /\ Written(i, r)
           /\ last' = Op("set", i, inst[i].config, prop, value, NoArgs, r.outcome)
    /\ nops' = nops + 1

(* object.setText(text) *)
SetText(i, text) ==
    /\ LET r == setText(heap[inst[i].config], inst[i].geometry, text)
       IN  /\ Written(i, r)
           /\ last' = Op("setText", i, inst[i].config, "text", text, NoArgs, r.outcome)
    /\ nops' = nops + 1

(* object.<prop> = value, for color, threshold, smoothing *)
SetUniform(i, prop, value) ==
    /\ inst' = [inst EXCEPT ![i].material.uniforms = setUniform(@, prop, value)]
    /\ last' = Op("setUniform", i, inst[i].config, prop, Some(value), NoArgs, Ok)
    /\ nops' = nops + 1
    /\ UNCHANGED <<heap, layoutCalls, layoutOps>>

(* object.updateGeometry() *)
UpdateGeometry(i) ==
    /\ LET r == updateGeometry(inst[i].geometry, heap[inst[i].config])
       IN  /\ inst' = [inst EXCEPT ![i].geometry = r.geometry]
           /\ layoutCalls' = [layoutCalls EXCEPT ![i] = @ + r.calls]
           /\ layoutOps' = [layoutOps EXCEPT ![i] = @ + 1]
           /\ last' = Op("updateGeometry", i, inst[i].config, "", Undef, NoArgs, r.outcome)
    /\ nops' = nops + 1
    /\ UNCHANGED heap

(* The operations a run may still perform. *)
Budget == nops < MaxOps

Next ==
    \/ Budget /\ \E v \in ConfigInputs, t \in Textures, mc \in ModeColor :
          ConstructNew(v, t, mc[1], mc[2])
    \/ Budget /\ \E c \in DOMAIN heap, t \in Textures, mc \in ModeColor :
          ConstructShared(c, t, mc[1], mc[2])
    \/ Budget /\ \E i \in DOMAIN inst, p \in LayoutProps : \E v \in LayoutValues(p) :
          SetLayout(i, p, v)
    \/ Budget /\ \E i \in DOMAIN inst, v \in LayoutValues("text") : SetText(i, v)
    \/ Budget /\ \E i \in DOMAIN inst, p \in UniformProps : \E v \in UniformValues(p) :
          SetUniform(i, p, v)
    \/ Budget /\ \E i \in DOMAIN inst : UpdateGeometry(i)

Spec == Init /\ [][Next]_vars

(* ---------------------------------------------------------------- claims *)
Insts == DOMAIN inst
ConfigOf(i) == [p \in LayoutProps |-> GetLayout(i, p)]
LayoutWrite == last.op \in {"set", "setText"}

(* The geometry of a fresh construction from a configuration, if any. *)
FreshGeometry(config) ==
    LET r == TextBitmap(config, "atlas", Undef, Undef)
    IN  IF r.object = Undef THEN Undef ELSE Some(Val(r.object).geometry)

(* C1: after a write to a layout property of an instance has returned,     *)
(* with any value written (undefined included), the instance's geometry is *)
(* the geometry of a fresh construction from its final configuration.      *)
C1_PathIndependent ==
    (LayoutWrite /\ last.outcome = Ok) =>
        Some(inst[last.inst].geometry) = FreshGeometry(ConfigOf(last.inst))

(* C2: a write to color, threshold or smoothing changes the uniform of     *)
(* that name and nothing else: no configuration, no geometry, no layout,   *)
(* no other uniform, no other instance.                                    *)
C2_UniformWriteFrame ==
    [][last'.op = "setUniform" =>
        LET i == last'.inst
            p == last'.prop
        IN  /\ heap' = heap
            /\ layoutCalls' = layoutCalls
            /\ inst'[i].geometry = inst[i].geometry
            /\ inst'[i].material.uniforms[p].value = Val(last'.value)
            /\ \A q \in {"map", "color", "threshold", "smoothing"} \ {p} :
                  inst'[i].material.uniforms[q] = inst[i].material.uniforms[q]
            /\ \A j \in Insts \ {i} : inst'[j] = inst[j]]_vars

C2_Witness ==
    /\ last.op = "setUniform"
    /\ last.prop = "threshold"
    /\ inst[last.inst].geometry # <<>>

(* C3: construction from a configuration without a font fails with the     *)
(* configuration error, builds no object, computes no layout and leaves    *)
(* the caller's configuration as it was passed.                            *)
C3_MissingFontFatal ==
    [][(last'.op = "new" /\ last'.args.config.font = Undef) =>
        /\ last'.outcome = ConfigurationError
        /\ last'.inst = 0
        /\ inst' = inst
        /\ layoutCalls' = layoutCalls
        /\ heap'[last'.cfg] = last'.args.config
        /\ \A c \in DOMAIN heap \ {last'.cfg} : heap'[c] = heap[c]]_vars

C3_Witness ==
    /\ last.op = "new"
    /\ last.args.config.font = Undef
    /\ last.args.config.width # Undef
    /\ last.outcome = ConfigurationError

(* C4: after a successful construction the configuration holds the         *)
(* supplied value of every supplied field and the default of every omitted *)
(* one, and the uniforms hold threshold 0.4, smoothing 0.0 and the given   *)
(* color, or white.                                                        *)
Default(prop, font) ==
    CASE prop = "width" -> Some(500)
      [] prop = "align" -> Some("center")
      [] prop = "letterSpacing" -> Some(5)
      [] prop = "lineHeight" -> Some(FontData[Val(font)].common.lineHeight)
      [] prop = "text" -> Some(<<>>)

C4_Defaults ==
    (last.op = "new" /\ last.outcome = Ok) =>
        LET i == last.inst
            given == last.args.config
        IN  /\ \A p \in LayoutProps :
                  GetLayout(i, p) = IF given[p] # Undef THEN given[p]
                                    ELSE Default(p, given.font)
            /\ GetUniform(i, "threshold") = 40
            /\ GetUniform(i, "smoothing") = 0
            /\ GetUniform(i, "color") =
                  IF last.args.color = Some(16711680) THEN [r |-> 255, g |-> 0, b |-> 0]
                  ELSE [r |-> 255, g |-> 255, b |-> 255]

C4_Witness ==
    /\ last.op = "new"
    /\ last.outcome = Ok
    /\ last.args.config.text # Undef
    /\ last.args.config.align = Undef
    /\ last.args.color # Undef

(* C5: the mode of an instance is the one given to the constructor, Bitmap *)
(* when omitted; its fragment shader is the shader of that mode; and no    *)
(* later operation changes either.                                         *)
ShaderOf(mode) ==
    CASE mode = 100 -> "BITMAP_SHADER"
      [] mode = 101 -> "SDF_SHADER"
      [] mode = 102 -> "MSDF_SHADER"

C5_ModeFixed ==
    /\ [](\A i \in Insts : inst[i].material.fragmentShader = ShaderOf(inst[i].mode))
    /\ []((last.op = "new" /\ last.outcome = Ok) =>
            inst[last.inst].mode = IF last.args.mode = Undef THEN 100
                                   ELSE Val(last.args.mode))
    /\ [][\A i \in Insts :
            /\ inst'[i].mode = inst[i].mode
            /\ inst'[i].material.fragmentShader = inst[i].material.fragmentShader]_vars

C5_Witness ==
    /\ Len(inst) = 2
    /\ inst[1].mode = SDF
    /\ inst[2].mode = MSDF
    /\ last.op \in {"set", "setText", "setUniform", "updateGeometry"}

(* C6: updateGeometry() changes neither the configuration nor the          *)
(* material, and a second call right after a first leaves the geometry as  *)
(* the first call left it.                                                 *)
C6_UpdateIdempotent ==
    [][last'.op = "updateGeometry" =>
        LET i == last'.inst
        IN  /\ heap' = heap
            /\ inst'[i].material = inst[i].material
            /\ (last.op = "updateGeometry" /\ last.inst = i) =>
                  /\ inst'[i].geometry = inst[i].geometry
                  /\ last'.outcome = last.outcome]_vars

C6_Witness ==
    /\ last.op = "updateGeometry"
    /\ last.prev = [op |-> "updateGeometry", inst |-> last.inst]
    /\ last.outcome = Ok
    /\ inst[last.inst].geometry # <<>>

(* C7: setText(x) does what the write of x to the text property does from  *)
(* the same state: same configuration, same text read back, same geometry, *)
(* same outcome, one more layout, nothing else changed.                    *)
C7_SetTextIsTextWrite ==
    [][last'.op = "setText" =>
        LET i == last'.inst
            c == inst[i].config
            w == setLayout(heap[c], inst[i].geometry, "text", last'.value)
        IN  /\ heap' = [heap EXCEPT ![c] = w.config]
            /\ heap'[inst'[i].config].text = last'.value
            /\ inst' = [inst EXCEPT ![i].geometry = w.geometry]
            /\ last'.outcome = w.outcome
            /\ layoutCalls' = [layoutCalls EXCEPT ![i] = @ + w.calls]
            /\ layoutCalls'[i] = layoutCalls[i] + 1]_vars

C7_Witness ==
    /\ last.op = "setText"
    /\ last.value = Some(<<"b", "a">>)
    /\ last.outcome = Ok
    /\ inst[last.inst].geometry # <<>>

(* C8: the layout is computed once at construction and once per layout     *)
(* write or updateGeometry() call.                                         *)
C8_LayoutCount == \A i \in Insts : layoutCalls[i] = 1 + layoutOps[i]

(* C9: after every operation that returns, the geometry of every instance  *)
(* is the layout of the configuration its getters read.                    *)
C9_GeometryValid ==
    last.outcome = Ok =>
        \A i \in Insts :
            GeometryUpdate(<<>>, ConfigOf(i)) = [outcome |-> Ok, geometry |-> inst[i].geometry,
                                                 calls |-> 1]

(* C10: when the layout fails during a write to a layout property, the     *)
(* failure is the outcome of the write, the layout was tried once, the     *)
(* configuration keeps the written value and the geometry is unchanged.    *)
C10_FailurePropagates ==
    [][last'.op \in {"set", "setText"} =>
        LET i == last'.inst
            c == inst[i].config
            written == [heap[c] EXCEPT ![last'.prop] = last'.value]
            u == GeometryUpdate(inst[i].geometry, written)
        IN  u.outcome # Ok =>
               /\ last'.outcome = u.outcome
               /\ heap'[c] = written
               /\ heap'[c][last'.prop] = last'.value
               /\ inst'[i].geometry = inst[i].geometry
               /\ layoutCalls'[i] = layoutCalls[i] + 1]_vars

C10_Witness ==
    /\ last.op = "set"
    /\ last.prop = "width"
    /\ last.value = Some(8)
    /\ last.outcome = LayoutError
    /\ inst[last.inst].geometry # <<>>

====
